---- MODULE Spec2Model ----
(***************************************************************************)
(* Model of src/src/main.rs: the motion scheduler (main), the two          *)
(* potentiometer monitors, the deep-sleep countdown and the motor driver,  *)
(* run by a single-core cooperative executor.  A task keeps the processor  *)
(* from the moment the executor polls it until one of its awaits is        *)
(* pending; only then is another task polled.                              *)
(*                                                                         *)
(* Time is in milliseconds and advances in steps of one poll period.  The  *)
(* clock is an input of the program: the model does not bound how long the *)
(* synchronous code of a running task takes.  A running task sees the      *)
(* clock only where it reads it, so the model lets the clock advance right *)
(* before those reads.  While the executor is idle the clock does not pass *)
(* a task that is ready to be polled.                                      *)
(***************************************************************************)
EXTENDS Integers, FiniteSets, Sequences

(* ------------------------------ constants of the program -------------- *)
NUM_ADC_SAMPLES == 100
MIN_MOTOR_DUTY_PERCENT == 20
MAX_MOTOR_DUTY_PERCENT == 100
MIN_MOVEMENT_DURATION == 200
MAX_MOVEMENT_DURATION == 2000
POTENTIOMETER_READ_INTERVAL == 200
MIN_ADC_VOLTAGE == 0
MAX_ADC_VOLTAGE == 3000
DRASTIC_THRESHOLD == 10
\* Ticker::every(Duration::from_millis(200)) of main
MAIN_TICK_MS == 200
\* let movement_duration = Duration::from_millis(2 * 1_000)
movement_duration == 2 * 1000

(* ------------------------------ bounds of the model ------------------- *)
\* The clock stops advancing after MaxNowTicks poll periods.
MaxNowTicks == 12
\* The session ceiling MAX_ACTIVE_SEC (600 s, 3000 poll periods in the
\* program) counted in poll periods; scaled so that the countdown expires
\* within the modelled time.
SessionTicks == 2

TickMs == POTENTIOMETER_READ_INTERVAL
MAX_ACTIVE_MS == SessionTicks * TickMs
\* The raw readings (mV) a one-shot ADC read returns in the model.
RawSamples == {MIN_ADC_VOLTAGE, 1500, 2900, MAX_ADC_VOLTAGE}

Tasks == {"main", "speed", "duration", "sleep"}
Monitors == {"speed", "duration"}

VARIABLES
    now,                            \* Instant::now(), ms since start
    running,                        \* the task the executor is polling, or "none"
    pc,                             \* position of each task
    ticker,                         \* expires_at of each task's Ticker
    overflow_checks,                \* build profile: arithmetic overflow panics
    panicked,                       \* "none" or the task whose panic halted the device
    \* main
    direction, iter_pos, start_time, max_motor_percent, duty_percent, last_exit,
    \* Motor
    forward_duty, reverse_duty,
    \* statics
    CURRENT_MAX_MOTOR_PERCENT, CURRENT_MAX_MOVEMENT_DURATION, DRASTIC_PARAMETER_CHANGE,
    \* monitor_speed_pot
    speed_avg_pin_value, max_duty_percent, prev_max_duty_percent,
    \* monitor_duration_pot
    duration_avg_pin_value, max_duration, prev_max_duration,
    \* Adc1Mutex, AdcPin0MutexForSpeed, AdcPin1MutexForDuration
    adc1_mutex, speed_pot_pin_mutex, duration_pot_pin_mutex,
    \* deep_sleep_countdown
    sleep_deadline, asleep,
    \* the ADC peripheral: its one-shot reads never become ready
    adc_stuck

mainVars == <<direction, iter_pos, start_time, max_motor_percent, duty_percent, last_exit>>
motorVars == <<forward_duty, reverse_duty>>
storeVars == <<CURRENT_MAX_MOTOR_PERCENT, CURRENT_MAX_MOVEMENT_DURATION>>
speedVars == <<speed_avg_pin_value, max_duty_percent, prev_max_duty_percent>>
durationVars == <<duration_avg_pin_value, max_duration, prev_max_duration>>
lockVars == <<adc1_mutex, speed_pot_pin_mutex, duration_pot_pin_mutex>>
sleepVars == <<sleep_deadline, asleep>>
buildVars == <<overflow_checks>>
adcVars == <<adc_stuck>>

vars == <<now, running, pc, ticker, overflow_checks, panicked,
          direction, iter_pos, start_time, max_motor_percent, duty_percent, last_exit,
          forward_duty, reverse_duty,
          CURRENT_MAX_MOTOR_PERCENT, CURRENT_MAX_MOVEMENT_DURATION, DRASTIC_PARAMETER_CHANGE,
          speed_avg_pin_value, max_duty_percent, prev_max_duty_percent,
          duration_avg_pin_value, max_duration, prev_max_duration,
          adc1_mutex, speed_pot_pin_mutex, duration_pot_pin_mutex,
          sleep_deadline, asleep, adc_stuck>>

(* ------------------------------ integer widths ------------------------ *)
U8_MAX == 255
U16_MAX == 65535
Wrap16(x) == x % (U16_MAX + 1)
Fits16(x) == x >= 0 /\ x <= U16_MAX

AbsDiff(a, b) == IF a >= b THEN a - b ELSE b - a

(* ------------------------------ map_range ----------------------------- *)
\* the mapping without its offset
map_range_no_offset(in_value, in_min, in_max, out_min, out_max) ==
    Wrap16(Wrap16(in_value - in_min) * Wrap16(out_max - out_min))
        \div Wrap16(in_max - in_min)

\* map_range::<u16>: every operator is the u16 one.  With overflow checks the
\* first intermediate result that leaves u16 panics; without them it wraps.
MapRangeOverflows(in_value, in_min, in_max, out_min, out_max) ==
    LET d1 == in_value - in_min
        d2 == out_max - out_min
        p  == Wrap16(d1) * Wrap16(d2)
        d3 == in_max - in_min
        q  == IF Wrap16(d3) = 0 THEN 0 ELSE Wrap16(p) \div Wrap16(d3)
    IN  \/ ~Fits16(d1)
        \/ ~Fits16(d2)
        \/ ~Fits16(p)
        \/ ~Fits16(d3)
        \/ ~Fits16(q + out_min)

MapRangeDivByZero(in_min, in_max) == Wrap16(in_max - in_min) = 0

map_range(in_value, in_min, in_max, out_min, out_max) ==
    LET d1 == Wrap16(in_value - in_min)
        d2 == Wrap16(out_max - out_min)
        p  == Wrap16(d1 * d2)
        d3 == Wrap16(in_max - in_min)
    IN  Wrap16((p \div d3) + out_min)

\* The panic of a call of map_range in this build.
MapRangePanics(in_value, in_min, in_max, out_min, out_max) ==
    \/ MapRangeDivByZero(in_min, in_max)
    \/ overflow_checks /\ MapRangeOverflows(in_value, in_min, in_max, out_min, out_max)

(* ------------------------------ sampling ------------------------------ *)
\* The u32 sum of a burst of NUM_ADC_SAMPLES reads that all return r (the
\* input is steady for the length of a burst), and its truncated average.
BurstSum(r) == NUM_ADC_SAMPLES * r

BurstAverage(r) == BurstSum(r) \div NUM_ADC_SAMPLES

(* ------------------------------ Ticker -------------------------------- *)
\* Ticker::next: ready when expires_at <= now, and then expires_at advances by
\* one period; pending otherwise.
TickerReady(t) == ticker[t] <= now
TickerAdvance(t, period) == [ticker EXCEPT ![t] = @ + period]

(* ------------------------------ random draws -------------------------- *)
\* a draw from a range one too long
gen_range_past_end(low, high) == {low, high + 1}
\* gen_range(low..=high): the values drawn are the two ends and the middle.
gen_range(low, high) == {low, high, (low + high) \div 2}

(* ------------------------------ initial state ------------------------- *)
Init ==
    /\ now = 0
    /\ running = "main"
    /\ pc = [main |-> "seg_start", speed |-> "spawned",
             duration |-> "spawned", sleep |-> "spawned"]
    /\ ticker = [main |-> now + MAIN_TICK_MS, speed |-> 0, duration |-> 0]
    /\ overflow_checks \in BOOLEAN
    /\ panicked = "none"
    /\ direction = "None"
    /\ iter_pos = 0
    /\ start_time = 0
    /\ max_motor_percent = MIN_MOTOR_DUTY_PERCENT
    /\ duty_percent = 0
    /\ last_exit = "none"
    /\ forward_duty = 0
    /\ reverse_duty = 0
    /\ CURRENT_MAX_MOTOR_PERCENT = MIN_MOTOR_DUTY_PERCENT
    /\ CURRENT_MAX_MOVEMENT_DURATION = MIN_MOVEMENT_DURATION
    /\ DRASTIC_PARAMETER_CHANGE = FALSE
    /\ speed_avg_pin_value = 0
    /\ max_duty_percent = MIN_MOTOR_DUTY_PERCENT
    /\ prev_max_duty_percent = MIN_MOTOR_DUTY_PERCENT
    /\ duration_avg_pin_value = 0
    /\ max_duration = MIN_MOVEMENT_DURATION
    /\ prev_max_duration = MIN_MOVEMENT_DURATION
    /\ adc1_mutex = "free"
    /\ speed_pot_pin_mutex = "free"
    /\ duration_pot_pin_mutex = "free"
    /\ sleep_deadline = 0
    /\ asleep = FALSE
    /\ adc_stuck \in BOOLEAN

Alive == panicked = "none" /\ ~asleep
Runs(t) == Alive /\ running = t
At(t, p) == Runs(t) /\ pc[t] = p
Idle == Alive /\ running = "none"
Goto(t, p) == pc' = [pc EXCEPT ![t] = p]

(* ------------------------------ main ---------------------------------- *)
\* [MotorDirection::Forward, MotorDirection::Reverse].iter().cycle()
Directions == <<"Forward", "Reverse">>

\* a cycle that never leaves its position
CycleStuck(pos) == pos
\* the position of the cycle after it yielded the item at pos
CycleNext(pos) == (pos + 1) % Len(Directions)

\* lines 136-142: the iterator yields the next direction; start_time, the
\* load of CURRENT_MAX_MOTOR_PERCENT and the draw of duty_percent.
MainSegmentStart ==
    /\ At("main", "seg_start")
    /\ direction' = Directions[iter_pos + 1]
    /\ iter_pos' = CycleNext(iter_pos)
    /\ start_time' = now
    /\ max_motor_percent' = CURRENT_MAX_MOTOR_PERCENT
    /\ IF MIN_MOTOR_DUTY_PERCENT > CURRENT_MAX_MOTOR_PERCENT
       THEN /\ panicked' = "main"
            /\ UNCHANGED <<duty_percent, pc>>
       ELSE /\ duty_percent' \in gen_range(MIN_MOTOR_DUTY_PERCENT, CURRENT_MAX_MOTOR_PERCENT)
            /\ Goto("main", "set_first")
            /\ UNCHANGED panicked
    /\ UNCHANGED <<now, running, ticker, last_exit, motorVars, storeVars,
                   DRASTIC_PARAMETER_CHANGE, speedVars, durationVars, lockVars,
                   sleepVars, buildVars, adcVars>>

\* Motor::start_movement, first set_duty of the matching arm (lines 314, 318)
StartMovementFirstWrite ==
    /\ At("main", "set_first")
    /\ IF direction = "Forward"
       THEN forward_duty' = duty_percent
       ELSE forward_duty' = 0
    /\ Goto("main", "set_second")
    /\ UNCHANGED <<now, running, ticker, mainVars, reverse_duty, storeVars,
                   DRASTIC_PARAMETER_CHANGE, speedVars, durationVars, lockVars,
                   sleepVars, buildVars, adcVars, panicked>>

\* a second write that leaves the reverse channel of a Forward call as it was
StartMovementKeepsOpposite ==
    /\ At("main", "set_second")
    /\ IF direction = "Forward"
       THEN reverse_duty' = reverse_duty
       ELSE reverse_duty' = duty_percent
    /\ Goto("main", "clear_flag")
    /\ UNCHANGED <<now, running, ticker, mainVars, forward_duty, storeVars,
                   DRASTIC_PARAMETER_CHANGE, speedVars, durationVars, lockVars,
                   sleepVars, buildVars, adcVars, panicked>>

\* Motor::start_movement, second set_duty of the matching arm (lines 315, 319)
StartMovementSecondWrite ==
    /\ At("main", "set_second")
    /\ IF direction = "Forward"
       THEN reverse_duty' = 0
       ELSE reverse_duty' = duty_percent
    /\ Goto("main", "clear_flag")
    /\ UNCHANGED <<now, running, ticker, mainVars, forward_duty, storeVars,
                   DRASTIC_PARAMETER_CHANGE, speedVars, durationVars, lockVars,
                   sleepVars, buildVars, adcVars, panicked>>

\* line 144
MainClearFlag ==
    /\ At("main", "clear_flag")
    /\ DRASTIC_PARAMETER_CHANGE' = FALSE
    /\ Goto("main", "check")
    /\ UNCHANGED <<now, running, ticker, mainVars, motorVars, storeVars,
                   speedVars, durationVars, lockVars, sleepVars, buildVars, adcVars, panicked>>

\* line 148: the condition of the while loop
WhileCondition == now - start_time >= movement_duration

MainCheck ==
    /\ At("main", "check")
    /\ IF WhileCondition
       THEN /\ Goto("main", "ticker_next")
            /\ UNCHANGED last_exit
       ELSE /\ Goto("main", "seg_start")
            /\ last_exit' = "condition"
    /\ UNCHANGED <<now, running, ticker, direction, iter_pos, start_time,
                   max_motor_percent, duty_percent, motorVars, storeVars,
                   DRASTIC_PARAMETER_CHANGE, speedVars, durationVars, lockVars,
                   sleepVars, buildVars, adcVars, panicked>>

\* line 149: ticker.next().await, polled by the running main
MainTickerNext ==
    /\ At("main", "ticker_next")
    /\ IF TickerReady("main")
       THEN /\ ticker' = TickerAdvance("main", MAIN_TICK_MS)
            /\ Goto("main", "poll_flag")
            /\ UNCHANGED running
       ELSE /\ Goto("main", "ticker_wait")
            /\ running' = "none"
            /\ UNCHANGED ticker
    /\ UNCHANGED <<now, mainVars, motorVars, storeVars, DRASTIC_PARAMETER_CHANGE,
                   speedVars, durationVars, lockVars, sleepVars, buildVars, adcVars, panicked>>

\* line 149: the executor polls main again once its ticker has expired
MainTickerWake ==
    /\ Idle
    /\ pc["main"] = "ticker_wait"
    /\ TickerReady("main")
    /\ running' = "main"
    /\ ticker' = TickerAdvance("main", MAIN_TICK_MS)
    /\ Goto("main", "poll_flag")
    /\ UNCHANGED <<now, mainVars, motorVars, storeVars, DRASTIC_PARAMETER_CHANGE,
                   speedVars, durationVars, lockVars, sleepVars, buildVars, adcVars, panicked>>

\* a poll of the flag that also clears it, at the end of the segment
MainPollFlagClears ==
    /\ At("main", "poll_flag")
    /\ DRASTIC_PARAMETER_CHANGE' = FALSE
    /\ IF DRASTIC_PARAMETER_CHANGE
       THEN /\ Goto("main", "seg_start")
            /\ last_exit' = "break"
       ELSE /\ Goto("main", "check")
            /\ UNCHANGED last_exit
    /\ UNCHANGED <<now, running, ticker, direction, iter_pos, start_time,
                   max_motor_percent, duty_percent, motorVars, storeVars,
                   speedVars, durationVars, lockVars, sleepVars, buildVars, adcVars, panicked>>

\* lines 150-152
MainPollFlag ==
    /\ At("main", "poll_flag")
    /\ IF DRASTIC_PARAMETER_CHANGE
       THEN /\ Goto("main", "seg_start")
            /\ last_exit' = "break"
       ELSE /\ Goto("main", "check")
            /\ UNCHANGED last_exit
    /\ UNCHANGED <<now, running, ticker, direction, iter_pos, start_time,
                   max_motor_percent, duty_percent, motorVars, storeVars,
                   DRASTIC_PARAMETER_CHANGE, speedVars, durationVars, lockVars,
                   sleepVars, buildVars, adcVars, panicked>>

(* ------------------------------ the monitors -------------------------- *)
\* lines 162 and 203: the first poll of a monitor creates its ticker
MonitorStart(m) ==
    /\ Idle
    /\ pc[m] = "spawned"
    /\ running' = m
    /\ ticker' = [ticker EXCEPT ![m] = now + POTENTIOMETER_READ_INTERVAL]
    /\ Goto(m, "lock_adc")
    /\ UNCHANGED <<now, mainVars, motorVars, storeVars, DRASTIC_PARAMETER_CHANGE,
                   speedVars, durationVars, lockVars, sleepVars, buildVars, adcVars, panicked>>

\* lines 167 and 208: adc1_mutex.lock().await
MonitorLockAdc(m) ==
    /\ At(m, "lock_adc")
    /\ IF adc1_mutex = "free"
       THEN /\ adc1_mutex' = m
            /\ Goto(m, "lock_pin")
            /\ UNCHANGED running
       ELSE /\ Goto(m, "lock_adc_wait")
            /\ running' = "none"
            /\ UNCHANGED adc1_mutex
    /\ UNCHANGED <<now, ticker, mainVars, motorVars, storeVars, DRASTIC_PARAMETER_CHANGE,
                   speedVars, durationVars, speed_pot_pin_mutex, duration_pot_pin_mutex,
                   sleepVars, buildVars, adcVars, panicked>>

\* line 168: speed_pot_pin_mutex.lock().await
SpeedLockPin ==
    /\ At("speed", "lock_pin")
    /\ IF speed_pot_pin_mutex = "free"
       THEN /\ speed_pot_pin_mutex' = "speed"
            /\ Goto("speed", "sample")
            /\ UNCHANGED running
       ELSE /\ Goto("speed", "lock_pin_wait")
            /\ running' = "none"
            /\ UNCHANGED speed_pot_pin_mutex
    /\ UNCHANGED <<now, ticker, mainVars, motorVars, storeVars, DRASTIC_PARAMETER_CHANGE,
                   speedVars, durationVars, adc1_mutex, duration_pot_pin_mutex,
                   sleepVars, buildVars, adcVars, panicked>>

\* line 209: duration_pot_pin_mutex.lock().await
DurationLockPin ==
    /\ At("duration", "lock_pin")
    /\ IF duration_pot_pin_mutex = "free"
       THEN /\ duration_pot_pin_mutex' = "duration"
            /\ Goto("duration", "sample")
            /\ UNCHANGED running
       ELSE /\ Goto("duration", "lock_pin_wait")
            /\ running' = "none"
            /\ UNCHANGED duration_pot_pin_mutex
    /\ UNCHANGED <<now, ticker, mainVars, motorVars, storeVars, DRASTIC_PARAMETER_CHANGE,
                   speedVars, durationVars, adc1_mutex, speed_pot_pin_mutex,
                   sleepVars, buildVars, adcVars, panicked>>

\* lines 170 and 211: nb::block! polls read_oneshot again for as long as it
\* returns WouldBlock; there is no await in the loop, the monitor keeps the
\* processor and nothing of the program's state changes.
MonitorReadBlocked(m) ==
    /\ At(m, "sample")
    /\ adc_stuck
    /\ UNCHANGED vars

\* lines 169-174: the burst of reads, its average, and the narrowing to u16
SpeedSample ==
    /\ At("speed", "sample")
    /\ adc1_mutex = "speed" /\ speed_pot_pin_mutex = "speed"
    /\ ~adc_stuck
    /\ \E r \in RawSamples :
          IF BurstAverage(r) > U16_MAX
          THEN /\ panicked' = "speed"
               /\ UNCHANGED <<speed_avg_pin_value, pc>>
          ELSE /\ speed_avg_pin_value' = BurstAverage(r)
               /\ Goto("speed", "publish")
               /\ UNCHANGED panicked
    /\ UNCHANGED <<now, running, ticker, mainVars, motorVars, storeVars,
                   DRASTIC_PARAMETER_CHANGE, max_duty_percent, prev_max_duty_percent,
                   durationVars, lockVars, sleepVars, buildVars, adcVars>>

\* lines 210-215
DurationSample ==
    /\ At("duration", "sample")
    /\ adc1_mutex = "duration" /\ duration_pot_pin_mutex = "duration"
    /\ ~adc_stuck
    /\ \E r \in RawSamples :
          IF BurstAverage(r) > U16_MAX
          THEN /\ panicked' = "duration"
               /\ UNCHANGED <<duration_avg_pin_value, pc>>
          ELSE /\ duration_avg_pin_value' = BurstAverage(r)
               /\ Goto("duration", "publish")
               /\ UNCHANGED panicked
    /\ UNCHANGED <<now, running, ticker, mainVars, motorVars, storeVars,
                   DRASTIC_PARAMETER_CHANGE, max_duration, prev_max_duration,
                   speedVars, lockVars, sleepVars, buildVars, adcVars>>

\* lines 176-184: map_range at u16 and the narrowing of its result to u8
SpeedMapped ==
    map_range(speed_avg_pin_value, MIN_ADC_VOLTAGE, MAX_ADC_VOLTAGE,
              MIN_MOTOR_DUTY_PERCENT, MAX_MOTOR_DUTY_PERCENT)

SpeedMapPanics ==
    \/ MapRangePanics(speed_avg_pin_value, MIN_ADC_VOLTAGE, MAX_ADC_VOLTAGE,
                      MIN_MOTOR_DUTY_PERCENT, MAX_MOTOR_DUTY_PERCENT)
    \/ SpeedMapped > U8_MAX

\* a store of the mapped speed into the field of the duration
SpeedPublishWrongField ==
    /\ At("speed", "publish")
    /\ IF SpeedMapPanics
       THEN /\ panicked' = "speed"
            /\ UNCHANGED <<max_duty_percent, CURRENT_MAX_MOVEMENT_DURATION, pc>>
       ELSE /\ max_duty_percent' = SpeedMapped
            /\ CURRENT_MAX_MOVEMENT_DURATION' = SpeedMapped
            /\ Goto("speed", "compare")
            /\ UNCHANGED panicked
    /\ UNCHANGED <<now, running, ticker, mainVars, motorVars, CURRENT_MAX_MOTOR_PERCENT,
                   DRASTIC_PARAMETER_CHANGE, speed_avg_pin_value, prev_max_duty_percent,
                   durationVars, lockVars, sleepVars, buildVars, adcVars>>

\* lines 176-186: the mapped value is stored in CURRENT_MAX_MOTOR_PERCENT
SpeedPublish ==
    /\ At("speed", "publish")
    /\ IF SpeedMapPanics
       THEN /\ panicked' = "speed"
            /\ UNCHANGED <<max_duty_percent, CURRENT_MAX_MOTOR_PERCENT, pc>>
       ELSE /\ max_duty_percent' = SpeedMapped
            /\ CURRENT_MAX_MOTOR_PERCENT' = SpeedMapped
            /\ Goto("speed", "compare")
            /\ UNCHANGED panicked
    /\ UNCHANGED <<now, running, ticker, mainVars, motorVars, CURRENT_MAX_MOVEMENT_DURATION,
                   DRASTIC_PARAMETER_CHANGE, speed_avg_pin_value, prev_max_duty_percent,
                   durationVars, lockVars, sleepVars, buildVars, adcVars>>

\* lines 217-223
DurationMapped ==
    map_range(duration_avg_pin_value, MIN_ADC_VOLTAGE, MAX_ADC_VOLTAGE,
              MIN_MOVEMENT_DURATION, MAX_MOVEMENT_DURATION)

DurationMapPanics ==
    MapRangePanics(duration_avg_pin_value, MIN_ADC_VOLTAGE, MAX_ADC_VOLTAGE,
                   MIN_MOVEMENT_DURATION, MAX_MOVEMENT_DURATION)

\* lines 217-225: the mapped value is stored in CURRENT_MAX_MOVEMENT_DURATION
DurationPublish ==
    /\ At("duration", "publish")
    /\ IF DurationMapPanics
       THEN /\ panicked' = "duration"
            /\ UNCHANGED <<max_duration, CURRENT_MAX_MOVEMENT_DURATION, pc>>
       ELSE /\ max_duration' = DurationMapped
            /\ CURRENT_MAX_MOVEMENT_DURATION' = DurationMapped
            /\ Goto("duration", "compare")
            /\ UNCHANGED panicked
    /\ UNCHANGED <<now, running, ticker, mainVars, motorVars, CURRENT_MAX_MOTOR_PERCENT,
                   DRASTIC_PARAMETER_CHANGE, duration_avg_pin_value, prev_max_duration,
                   speedVars, lockVars, sleepVars, buildVars, adcVars>>

\* a threshold that is reached rather than exceeded
IsDrasticAtThreshold(prev, new) == AbsDiff(prev, new) >= DRASTIC_THRESHOLD
\* line 188 and line 227: the condition under which a monitor raises the flag
IsDrastic(prev, new) == AbsDiff(prev, new) > DRASTIC_THRESHOLD

\* lines 188-190
SpeedCompare ==
    /\ At("speed", "compare")
    /\ DRASTIC_PARAMETER_CHANGE' =
          IF IsDrastic(prev_max_duty_percent, max_duty_percent)
          THEN TRUE ELSE DRASTIC_PARAMETER_CHANGE
    /\ Goto("speed", "set_prev")
    /\ UNCHANGED <<now, running, ticker, mainVars, motorVars, storeVars,
                   speedVars, durationVars, lockVars, sleepVars, buildVars, adcVars, panicked>>

\* lines 227-229
DurationCompare ==
    /\ At("duration", "compare")
    /\ DRASTIC_PARAMETER_CHANGE' =
          IF IsDrastic(prev_max_duration, max_duration)
          THEN TRUE ELSE DRASTIC_PARAMETER_CHANGE
    /\ Goto("duration", "set_prev")
    /\ UNCHANGED <<now, running, ticker, mainVars, motorVars, storeVars,
                   speedVars, durationVars, lockVars, sleepVars, buildVars, adcVars, panicked>>

\* an end of cycle that keeps the guard of the ADC
SpeedSetPrevKeepsAdc ==
    /\ At("speed", "set_prev")
    /\ prev_max_duty_percent' = max_duty_percent
    /\ speed_pot_pin_mutex' = "free"
    /\ Goto("speed", "ticker_next")
    /\ UNCHANGED <<now, running, ticker, mainVars, motorVars, storeVars,
                   DRASTIC_PARAMETER_CHANGE, speed_avg_pin_value, max_duty_percent,
                   durationVars, adc1_mutex, duration_pot_pin_mutex, sleepVars,
                   buildVars, adcVars, panicked>>

\* lines 192-193: the previous value, then both guards are dropped
SpeedSetPrev ==
    /\ At("speed", "set_prev")
    /\ prev_max_duty_percent' = max_duty_percent
    /\ speed_pot_pin_mutex' = "free"
    /\ adc1_mutex' = "free"
    /\ Goto("speed", "ticker_next")
    /\ UNCHANGED <<now, running, ticker, mainVars, motorVars, storeVars,
                   DRASTIC_PARAMETER_CHANGE, speed_avg_pin_value, max_duty_percent,
                   durationVars, duration_pot_pin_mutex, sleepVars, buildVars, adcVars, panicked>>

\* lines 231-232
DurationSetPrev ==
    /\ At("duration", "set_prev")
    /\ prev_max_duration' = max_duration
    /\ duration_pot_pin_mutex' = "free"
    /\ adc1_mutex' = "free"
    /\ Goto("duration", "ticker_next")
    /\ UNCHANGED <<now, running, ticker, mainVars, motorVars, storeVars,
                   DRASTIC_PARAMETER_CHANGE, duration_avg_pin_value, max_duration,
                   speedVars, speed_pot_pin_mutex, sleepVars, buildVars, adcVars, panicked>>

\* lines 194 and 233: ticker.next().await, polled by the running monitor
MonitorTickerNext(m) ==
    /\ At(m, "ticker_next")
    /\ IF TickerReady(m)
       THEN /\ ticker' = TickerAdvance(m, POTENTIOMETER_READ_INTERVAL)
            /\ Goto(m, "lock_adc")
            /\ UNCHANGED running
       ELSE /\ Goto(m, "ticker_wait")
            /\ running' = "none"
            /\ UNCHANGED ticker
    /\ UNCHANGED <<now, mainVars, motorVars, storeVars, DRASTIC_PARAMETER_CHANGE,
                   speedVars, durationVars, lockVars, sleepVars, buildVars, adcVars, panicked>>

\* lines 194 and 233: the executor polls the monitor once its ticker has expired
MonitorTickerWake(m) ==
    /\ Idle
    /\ pc[m] = "ticker_wait"
    /\ TickerReady(m)
    /\ running' = m
    /\ ticker' = TickerAdvance(m, POTENTIOMETER_READ_INTERVAL)
    /\ Goto(m, "lock_adc")
    /\ UNCHANGED <<now, mainVars, motorVars, storeVars, DRASTIC_PARAMETER_CHANGE,
                   speedVars, durationVars, lockVars, sleepVars, buildVars, adcVars, panicked>>

(* ------------------------------ deep_sleep_countdown ------------------ *)
\* line 250: the first poll arms the timer and is pending
SleepStart ==
    /\ Idle
    /\ pc["sleep"] = "spawned"
    /\ sleep_deadline' = now + MAX_ACTIVE_MS
    /\ Goto("sleep", "timer_wait")
    /\ UNCHANGED <<now, running, ticker, mainVars, motorVars, storeVars,
                   DRASTIC_PARAMETER_CHANGE, speedVars, durationVars, lockVars,
                   asleep, buildVars, adcVars, panicked>>

\* lines 251-252: polled after the timer expired, the device sleeps
SleepFire ==
    /\ Idle
    /\ pc["sleep"] = "timer_wait"
    /\ sleep_deadline <= now
    /\ asleep' = TRUE
    /\ Goto("sleep", "done")
    /\ UNCHANGED <<now, running, ticker, mainVars, motorVars, storeVars,
                   DRASTIC_PARAMETER_CHANGE, speedVars, durationVars, lockVars,
                   sleep_deadline, buildVars, adcVars, panicked>>

(* ------------------------------ the clock ----------------------------- *)
\* A task the executor would poll now.
Ready(t) ==
    \/ t \in Monitors \cup {"sleep"} /\ pc[t] = "spawned"
    \/ t # "sleep" /\ pc[t] = "ticker_wait" /\ TickerReady(t)
    \/ t = "sleep" /\ pc[t] = "timer_wait" /\ sleep_deadline <= now

\* The positions at which the running task reads the clock next: lines 140 and
\* 148 (Instant::now) and the polls of a ticker (lines 149, 194, 233).
ClockReads == {"seg_start", "check", "ticker_next"}

\* The running monitor spins on a read that does not become ready: time passes.
Spinning == running \in Monitors /\ pc[running] = "sample" /\ adc_stuck

Tick ==
    /\ Alive
    /\ now < MaxNowTicks * TickMs
    /\ IF running = "none"
       THEN \A t \in Tasks : ~Ready(t)
       ELSE pc[running] \in ClockReads \/ Spinning
    /\ now' = now + TickMs
    /\ UNCHANGED <<running, pc, ticker, mainVars, motorVars, storeVars,
                   DRASTIC_PARAMETER_CHANGE, speedVars, durationVars, lockVars,
                   sleepVars, buildVars, adcVars, panicked>>

(* ------------------------------ specification ------------------------- *)
Main ==
    \/ MainSegmentStart
    \/ StartMovementFirstWrite
    \/ StartMovementSecondWrite
    \/ MainClearFlag
    \/ MainCheck
    \/ MainTickerNext
    \/ MainTickerWake
    \/ MainPollFlag

MonitorSpeedPot ==
    \/ MonitorStart("speed")
    \/ MonitorLockAdc("speed")
    \/ SpeedLockPin
    \/ SpeedSample
    \/ MonitorReadBlocked("speed")
    \/ SpeedPublish
    \/ SpeedCompare
    \/ SpeedSetPrev
    \/ MonitorTickerNext("speed")
    \/ MonitorTickerWake("speed")

MonitorDurationPot ==
    \/ MonitorStart("duration")
    \/ MonitorLockAdc("duration")
    \/ DurationLockPin
    \/ DurationSample
    \/ MonitorReadBlocked("duration")
    \/ DurationPublish
    \/ DurationCompare
    \/ DurationSetPrev
    \/ MonitorTickerNext("duration")
    \/ MonitorTickerWake("duration")

DeepSleepCountdown == SleepStart \/ SleepFire

Next == Main \/ MonitorSpeedPot \/ MonitorDurationPot \/ DeepSleepCountdown \/ Tick

Spec == Init /\ [][Next]_vars

\* The executor polls a ready task whenever it is idle, the running task keeps
\* executing, and the clock keeps advancing.
FairSpec ==
    /\ Spec
    /\ WF_vars(Main)
    /\ WF_vars(MonitorSpeedPot)
    /\ WF_vars(MonitorDurationPot)
    /\ WF_vars(DeepSleepCountdown)
    /\ WF_vars(Tick)

(* ------------------------------ the motor driver on its own ----------- *)
\* Motor is also specified by itself: any caller, any sequence of
\* start_movement and stop, from the state Motor::new leaves (both channels
\* configured with duty 0, lines 285-303).  The caller is the task "main";
\* "seg_start" is its position before its first call, "clear_flag" the one
\* after start_movement returned and "stopped" the one after stop returned.
Duties == {0, MIN_MOTOR_DUTY_PERCENT, 60, MAX_MOTOR_DUTY_PERCENT}
BetweenCalls == {"seg_start", "clear_flag", "stopped"}

\* line 311: a call of start_movement with any direction and duty
CallStartMovement ==
    /\ Runs("main")
    /\ pc["main"] \in BetweenCalls
    /\ \E dir \in {"Forward", "Reverse"}, d \in Duties :
          /\ direction' = dir
          /\ duty_percent' = d
    /\ Goto("main", "set_first")
    /\ UNCHANGED <<now, running, ticker, iter_pos, start_time, max_motor_percent,
                   last_exit, motorVars, storeVars, DRASTIC_PARAMETER_CHANGE,
                   speedVars, durationVars, lockVars, sleepVars, buildVars, adcVars, panicked>>

\* Motor::stop, line 325
StopFirstWrite ==
    /\ Runs("main")
    /\ pc["main"] \in BetweenCalls
    /\ forward_duty' = 0
    /\ Goto("main", "stop_second")
    /\ UNCHANGED <<now, running, ticker, mainVars, reverse_duty, storeVars,
                   DRASTIC_PARAMETER_CHANGE, speedVars, durationVars, lockVars,
                   sleepVars, buildVars, adcVars, panicked>>

\* Motor::stop, line 326
StopSecondWrite ==
    /\ At("main", "stop_second")
    /\ reverse_duty' = 0
    /\ Goto("main", "stopped")
    /\ UNCHANGED <<now, running, ticker, mainVars, forward_duty, storeVars,
                   DRASTIC_PARAMETER_CHANGE, speedVars, durationVars, lockVars,
                   sleepVars, buildVars, adcVars, panicked>>

MotorNext ==
    \/ CallStartMovement
    \/ StartMovementFirstWrite
    \/ StartMovementSecondWrite
    \/ StopFirstWrite
    \/ StopSecondWrite

MotorSpec == Init /\ [][MotorNext]_vars

(* ====================================================================== *)
(* The claims                                                             *)
(* ====================================================================== *)
Elapsed == now - start_time
\* main leaves the segment it is in: the next step is the start of a segment
SegmentEnds == pc["main"] # "seg_start" /\ pc'["main"] = "seg_start"
\* main starts a segment
SegmentStarts == pc["main"] = "seg_start" /\ pc'["main"] = "set_first"

\* C1: in every state, the one between the two channel writes of
\* start_movement included, the forward duty and the reverse duty are not
\* both non-zero.
C1_ChannelsNeverBothOn == ~(forward_duty # 0 /\ reverse_duty # 0)

\* C2: in every execution the device eventually enters deep sleep (an
\* execution that a panic halts is left aside: the violation shown is the
\* scheduler's, not a panic's).
C2_DeepSleepReached == <>(asleep \/ panicked # "none")

\* C3: main leaves a segment only when the drastic-change flag is set or the
\* planned duration has elapsed since the segment's start, and in the latter
\* case no later than one poll tick after it has elapsed.
C3_SegmentEndsOnDurationOrFlag ==
    [][SegmentEnds =>
          \/ DRASTIC_PARAMETER_CHANGE
          \/ /\ Elapsed >= movement_duration
             /\ Elapsed <= movement_duration + MAIN_TICK_MS]_vars

\* C5: the direction given to start_movement is Forward for the first segment
\* and the opposite of the previous segment's thereafter, however the
\* previous segment ended.
Opposite(d) == IF d = "Forward" THEN "Reverse" ELSE "Forward"
C5_DirectionAlternates ==
    [][SegmentStarts =>
          direction' = IF direction = "None" THEN "Forward" ELSE Opposite(direction)]_vars
\* a segment has started after the previous one was left by the break
C5_Witness ==
    /\ pc["main"] = "set_first"
    /\ last_exit = "break"
    /\ direction = "Forward"

\* C6: the duty of every segment lies in [20, m], m being the value of
\* CURRENT_MAX_MOTOR_PERCENT loaded at the start of the segment, and the draw
\* never finds its range empty.
C6_DutyWithinBounds ==
    /\ panicked # "main"
    /\ pc["main"] = "set_first" => max_motor_percent = CURRENT_MAX_MOTOR_PERCENT
    /\ direction # "None" =>
          /\ 20 <= max_motor_percent
          /\ 20 <= duty_percent
          /\ duty_percent <= max_motor_percent
\* a segment whose bound a monitor has raised, with a duty above the minimum
C6_Witness ==
    /\ pc["main"] = "set_second"
    /\ max_motor_percent > 20
    /\ duty_percent > 20
    /\ duty_percent < max_motor_percent

\* C7: the planned duration of every segment lies in [200, M], M being the
\* value of CURRENT_MAX_MOVEMENT_DURATION at the start of the segment.
C7_DurationWithinBounds ==
    pc["main"] = "set_first" =>
        /\ 200 <= movement_duration
        /\ movement_duration <= CURRENT_MAX_MOVEMENT_DURATION

\* C8: the stored bounds stay within [20, 100] and [200, 2000].
C8_StoredBoundsInRange ==
    /\ CURRENT_MAX_MOTOR_PERCENT \in 20..100
    /\ CURRENT_MAX_MOVEMENT_DURATION \in 200..2000
\* both monitors have stored a value mapped from a reading above the minimum
C8_Witness ==
    /\ speed_avg_pin_value = 3000
    /\ CURRENT_MAX_MOTOR_PERCENT = max_duty_percent
    /\ CURRENT_MAX_MOTOR_PERCENT # 20
    /\ duration_avg_pin_value = 3000
    /\ CURRENT_MAX_MOVEMENT_DURATION = max_duration
    /\ CURRENT_MAX_MOVEMENT_DURATION # 200
    /\ pc["duration"] = "compare"

\* C9: the value a monitor obtains from map_range is the exact truncating
\* (v - in_min) * (out_max - out_min) / (in_max - in_min) + out_min of its
\* averaged reading, and no intermediate result overflows.
ExactMap(v, in_min, in_max, out_min, out_max) ==
    ((v - in_min) * (out_max - out_min)) \div (in_max - in_min) + out_min
C9_MapIsExact ==
    /\ panicked \notin Monitors
    /\ pc["speed"] = "compare" =>
          max_duty_percent = ExactMap(speed_avg_pin_value, 0, 3000, 20, 100)
    /\ pc["duration"] = "compare" =>
          max_duration = ExactMap(duration_avg_pin_value, 0, 3000, 200, 2000)

\* C10: in a monitor cycle, with v0 the monitor's previous mapped value (the
\* domain minimum before its first cycle) and v1 the new one, the flag is true
\* after the comparison if |v1 - v0| > 10 and is left as it was otherwise; v0
\* is then replaced by v1.
C10_JumpDetection ==
    [][/\ pc["speed"] = "spawned" => prev_max_duty_percent = 20
       /\ pc["duration"] = "spawned" => prev_max_duration = 200
       /\ (pc["speed"] = "compare" /\ pc'["speed"] # "compare") =>
             /\ max_duty_percent = CURRENT_MAX_MOTOR_PERCENT
             /\ AbsDiff(max_duty_percent, prev_max_duty_percent) > 10
                   => DRASTIC_PARAMETER_CHANGE'
             /\ AbsDiff(max_duty_percent, prev_max_duty_percent) <= 10
                   => DRASTIC_PARAMETER_CHANGE' = DRASTIC_PARAMETER_CHANGE
       /\ (pc["duration"] = "compare" /\ pc'["duration"] # "compare") =>
             /\ max_duration = CURRENT_MAX_MOVEMENT_DURATION
             /\ AbsDiff(max_duration, prev_max_duration) > 10
                   => DRASTIC_PARAMETER_CHANGE'
             /\ AbsDiff(max_duration, prev_max_duration) <= 10
                   => DRASTIC_PARAMETER_CHANGE' = DRASTIC_PARAMETER_CHANGE
       /\ (pc["speed"] = "set_prev" /\ pc'["speed"] # "set_prev") =>
             prev_max_duty_percent' = max_duty_percent
       /\ (pc["duration"] = "set_prev" /\ pc'["duration"] # "set_prev") =>
             prev_max_duration' = max_duration]_vars
\* the duration monitor has compared a previous value other than the minimum
\* with a new one exactly 10 away, and the flag is still unset
C10_Witness ==
    /\ pc["duration"] = "set_prev"
    /\ prev_max_duration # 200
    /\ AbsDiff(max_duration, prev_max_duration) = 10
    /\ ~DRASTIC_PARAMETER_CHANGE

\* C11: a speed monitor whose averaged reading is 1500 mV in one cycle and
\* 2900 mV in the next stores a value in both cycles, finds the two mapped
\* values more than 10 apart and raises the flag; main, polling a raised
\* flag, leaves its segment.  (The readings of the model map to distinct
\* values, so the previous value identifies the previous reading.)
C11_JumpEndsSegment ==
    [][/\ (pc["speed"] = "publish" /\ speed_avg_pin_value = 1500) =>
             panicked' # "speed"
       /\ (/\ pc["speed"] = "compare" /\ pc'["speed"] = "set_prev"
           /\ speed_avg_pin_value = 2900
           /\ prev_max_duty_percent =
                 map_range(1500, MIN_ADC_VOLTAGE, MAX_ADC_VOLTAGE,
                           MIN_MOTOR_DUTY_PERCENT, MAX_MOTOR_DUTY_PERCENT)) =>
             /\ AbsDiff(max_duty_percent, prev_max_duty_percent) > 10
             /\ DRASTIC_PARAMETER_CHANGE'
       /\ (/\ pc["main"] = "poll_flag" /\ pc'["main"] # "poll_flag"
           /\ DRASTIC_PARAMETER_CHANGE) =>
             pc'["main"] = "seg_start"]_vars

\* C12: in every execution that neither a panic nor deep sleep ends, each
\* monitor gets to complete a sampling cycle (the first of the cycles the
\* claim says it completes once per tick), whatever main is doing.
C12_MonitorsCompleteCycles ==
    /\ <>(asleep \/ panicked # "none" \/ pc["speed"] = "set_prev")
    /\ <>(asleep \/ panicked # "none" \/ pc["duration"] = "set_prev")

\* C13: whenever start_movement(direction, d) has returned, the channel of
\* direction holds d and the other one 0, whatever calls came before; for
\* d >= 20 exactly one channel is then non-zero; and between calls both
\* channels are zero only before the first call or after stop returned.
MatchingDuty == IF direction = "Forward" THEN forward_duty ELSE reverse_duty
OppositeDuty == IF direction = "Forward" THEN reverse_duty ELSE forward_duty
C13_ChannelsAfterStartMovement ==
    /\ pc["main"] = "clear_flag" =>
          /\ MatchingDuty = duty_percent
          /\ OppositeDuty = 0
          /\ duty_percent >= MIN_MOTOR_DUTY_PERCENT =>
                (forward_duty # 0) # (reverse_duty # 0)
    /\ (/\ pc["main"] \in BetweenCalls
        /\ forward_duty = 0 /\ reverse_duty = 0) =>
          \/ pc["main"] \in {"seg_start", "stopped"}
          \/ duty_percent < MIN_MOTOR_DUTY_PERCENT
\* a Forward call with a duty above the minimum has returned
C13_Witness ==
    /\ pc["main"] = "clear_flag"
    /\ direction = "Forward"
    /\ forward_duty = 60
    /\ reverse_duty = 0

\* C14: the two monitors are never both inside a sampling burst; a monitor
\* inside its burst holds the ADC lock and its pin lock and keeps the
\* processor until it has published and released them, so the other monitor
\* takes no sample in between; and a monitor that is outside its burst, its
\* tick wait included, holds neither lock.
PinMutex(m) == IF m = "speed" THEN speed_pot_pin_mutex ELSE duration_pot_pin_mutex
InBurst(m) == pc[m] \in {"sample", "publish", "compare", "set_prev"}
C14_OneBurstAtATime ==
    /\ ~(InBurst("speed") /\ InBurst("duration"))
    /\ \A m \in Monitors :
          /\ InBurst(m) =>
                /\ adc1_mutex = m
                /\ PinMutex(m) = m
                /\ running = m
          /\ pc[m] \in {"spawned", "lock_adc", "ticker_next", "ticker_wait"} =>
                /\ adc1_mutex # m
                /\ PinMutex(m) = "free"
\* the speed monitor is in its burst while the duration monitor, whose tick
\* has expired as well, waits to be polled
C14_Witness ==
    /\ pc["speed"] = "publish"
    /\ adc1_mutex = "speed"
    /\ pc["duration"] = "ticker_wait"
    /\ TickerReady("duration")

\* C15: no monitor ever blocks on the ADC lock or on a pin lock (so the three
\* locks cannot deadlock), and whenever the ticks of both monitors have
\* expired together, each of them gets its burst, unless a panic or deep
\* sleep ends the run first.
BothMonitorsReady ==
    /\ Idle
    /\ \A m \in Monitors : pc[m] = "ticker_wait" /\ TickerReady(m)
C15_MonitorsNotStarved ==
    /\ [](\A m \in Monitors : pc[m] \notin {"lock_adc_wait", "lock_pin_wait"})
    /\ \A m \in Monitors :
          BothMonitorsReady ~> (InBurst(m) \/ asleep \/ panicked # "none")

\* C17: the flag becomes true only in the comparison step of a monitor and
\* becomes false only in main's store of line 144, which every segment takes
\* once, after start_movement has returned and before the loop of the wait;
\* the end of a segment leaves the flag as it is, and a flag that is set while
\* main waits for its tick is still set when main polls it.
C17_FlagWriters ==
    [][/\ (~DRASTIC_PARAMETER_CHANGE /\ DRASTIC_PARAMETER_CHANGE') =>
             \E m \in Monitors : pc[m] = "compare" /\ pc'[m] = "set_prev"
       /\ (DRASTIC_PARAMETER_CHANGE /\ ~DRASTIC_PARAMETER_CHANGE') =>
             pc["main"] = "clear_flag" /\ pc'["main"] = "check"
       /\ (pc["main"] = "set_second" /\ pc'["main"] # "set_second") =>
             pc'["main"] = "clear_flag"
       /\ (pc["main"] = "clear_flag" /\ pc'["main"] # "clear_flag") =>
             pc'["main"] = "check" /\ ~DRASTIC_PARAMETER_CHANGE'
       /\ (pc["main"] # "clear_flag" /\ pc'["main"] = "clear_flag") =>
             pc["main"] = "set_second"
       /\ SegmentEnds => DRASTIC_PARAMETER_CHANGE' = DRASTIC_PARAMETER_CHANGE
       /\ (pc["main"] = "ticker_wait" /\ DRASTIC_PARAMETER_CHANGE) =>
             /\ DRASTIC_PARAMETER_CHANGE'
             /\ pc'["main"] \in {"ticker_wait", "poll_flag"}]_vars
\* main polls a flag that a monitor raised while main was waiting in the
\* same segment
C17_Witness ==
    /\ pc["main"] = "poll_flag"
    /\ running = "main"
    /\ DRASTIC_PARAMETER_CHANGE
    /\ \E m \in Monitors : pc[m] = "ticker_wait"

\* C18: a step of the speed monitor leaves CURRENT_MAX_MOVEMENT_DURATION, the
\* duration monitor's previous value and both motor channels unchanged; a
\* step of the duration monitor leaves CURRENT_MAX_MOTOR_PERCENT, the speed
\* monitor's previous value and both motor channels unchanged; a step of main
\* leaves both stored bounds unchanged.
StepOf(t) == pc'[t] # pc[t] \/ (panicked = "none" /\ panicked' = t)
C18_WritersOwnState ==
    [][/\ StepOf("speed") =>
             UNCHANGED <<CURRENT_MAX_MOVEMENT_DURATION, prev_max_duration,
                         forward_duty, reverse_duty>>
       /\ StepOf("duration") =>
             UNCHANGED <<CURRENT_MAX_MOTOR_PERCENT, prev_max_duty_percent,
                         forward_duty, reverse_duty>>
       /\ StepOf("main") =>
             UNCHANGED <<CURRENT_MAX_MOTOR_PERCENT, CURRENT_MAX_MOVEMENT_DURATION>>]_vars
\* the speed monitor has stored a new bound while the duration monitor's
\* bound and previous value differ from their initial ones and the motor runs
C18_Witness ==
    /\ pc["speed"] = "compare"
    /\ CURRENT_MAX_MOTOR_PERCENT # MIN_MOTOR_DUTY_PERCENT
    /\ CURRENT_MAX_MOTOR_PERCENT # prev_max_duty_percent
    /\ CURRENT_MAX_MOVEMENT_DURATION # MIN_MOVEMENT_DURATION
    /\ prev_max_duration = CURRENT_MAX_MOVEMENT_DURATION
    /\ forward_duty # 0

\* C19: when a monitor is blocked in a read that never becomes ready, main
\* still goes on to start a segment, and the countdown, if its timer is
\* armed, still puts the device into deep sleep.
ReadBlocked == \E m \in Monitors : pc[m] = "sample" /\ adc_stuck
C19_StuckReadStallsOnlyMonitors ==
    /\ ReadBlocked ~> (pc["main"] = "set_first" \/ asleep)
    /\ (ReadBlocked /\ pc["sleep"] = "timer_wait") ~> asleep

====
